---- MODULE Spec2Model ----
(***************************************************************************)
(* Debate orchestration service (debater/backend/app).                     *)
(*                                                                         *)
(* The store is a dict from debate identifier to a DebateState OBJECT;     *)
(* get_debate hands out that very object, so the model keeps a heap of     *)
(* objects and the dict maps identifiers to references into it.  A request *)
(* (one coroutine) is a record req[p]; it is split at the awaits of the    *)
(* provider calls, which are the only places where a coroutine can be      *)
(* suspended or can receive an exception from the backend.  llm is what    *)
(* the process keeps outside any request: the three key fields of the one  *)
(* LLMService object and the api_key the google.generativeai module was    *)
(* last configured with.                                                   *)
(***************************************************************************)
EXTENDS Integers, Sequences, FiniteSets, TLC

VARIABLES debates, heap, req, failed, llm

vars == <<debates, heap, req, failed, llm>>

(***************************************************************************)
(* Bounds and input sets.                                                  *)
(*                                                                         *)
(* MaxTurns: debates are built with max_turns in 1..MaxTurns (the create   *)
(* route leaves the field at its default; DebateState takes any integer).  *)
(* MaxFailures: how many conduct_turn calls on one debate may raise after  *)
(* loading it.  Each such call can leave one more message on the stored    *)
(* object, so without this cap the message list grows without bound; the   *)
(* variable failed counts them.                                            *)
(***************************************************************************)
MaxTurns == 2
MaxFailures == 1

DebateIds == {"d1", "d2"}
Procs == {"p1", "p2"}
Texts == {"t1", "t2"}
Propositions == {"X"}
None == "None"

(***************************************************************************)
(* llm_service.py                                                          *)
(***************************************************************************)
CLAUDE_MODELS == {"claude-sonnet-4-5-20250929", "claude-3-5-sonnet-20241022"}
GPT_MODELS == {"gpt-4o", "gpt-4-turbo"}
GEMINI_MODELS == {"gemini-2.0-flash-exp", "gemini-1.5-pro"}
ALL_MODELS == CLAUDE_MODELS \cup GPT_MODELS \cup GEMINI_MODELS

KeyNames == {"anthropic", "openai", "gemini"}

GetProviderDefaultGpt(model) ==
    IF model \in CLAUDE_MODELS THEN "claude"
    ELSE IF model \in GEMINI_MODELS THEN "gemini"
    ELSE "gpt"

\* _get_provider: membership lookup in the three model lists, else ValueError.
get_provider(model) ==
    IF model \in CLAUDE_MODELS THEN "claude"
    ELSE IF model \in GPT_MODELS THEN "gpt"
    ELSE IF model \in GEMINI_MODELS THEN "gemini"
    ELSE "UnknownModel"

\* generate_response: which entry of api_keys each provider branch reads.
KeyName(provider) ==
    IF provider = "claude" THEN "anthropic"
    ELSE IF provider = "gpt" THEN "openai"
    ELSE "gemini"

\* dict.get: the value, or None for a key the dict does not hold.
DictGet(d, k) == IF k \in DOMAIN d THEN d[k] ELSE None

FalsyNoneOnly(api_key) == api_key = None

\* 'if not api_key': None and the empty string are both falsy.
Falsy(api_key) == api_key = None \/ api_key = ""

\* generate_response up to the backend call: the error it raises before any
\* backend is contacted, or "call" when the backend call is issued.
Dispatch(model, api_keys) ==
    LET provider == get_provider(model) IN
    IF provider = "UnknownModel" THEN "UnknownModel"
    ELSE IF Falsy(DictGet(api_keys, KeyName(provider))) THEN "MissingCredential"
    ELSE "call"

\* lines 65, 88, 111: the credential the ValueError of each backend names.
CredentialName(provider) ==
    IF provider = "claude" THEN "Anthropic"
    ELSE IF provider = "gpt" THEN "OpenAI"
    ELSE "Gemini"

\* LLMService() as debate_service builds it: no key is passed in.
LLMService ==
    [anthropic_key |-> None, openai_key |-> None, gemini_key |-> None,
     genai_api_key |-> None]

\* line 113, genai.configure(api_key=api_key): the Gemini branch hands its
\* key to the module-wide configuration of the SDK before it calls.
Configure(state, model, api_keys) ==
    IF Dispatch(model, api_keys) = "call" /\ get_provider(model) = "gemini"
    THEN [state EXCEPT !.genai_api_key = api_keys["gemini"]]
    ELSE state

\* _call_claude lines 70-74: the roles the Anthropic request carries.
claude_messages(messages) ==
    [i \in 1..Len(messages) |->
        [role |-> IF messages[i].role \in {"user", "against_agent", "for_agent"}
                  THEN "user" ELSE "assistant",
         content |-> messages[i].content]]

\* _call_gpt lines 93-98: the system prompt first, then the converted turns.
gpt_messages(system_prompt, messages) ==
    <<[role |-> "system", content |-> system_prompt]>> \o
    [i \in 1..Len(messages) |->
        [role |-> IF messages[i].role \in {"user", "against_agent", "for_agent"}
                  THEN "user" ELSE "assistant",
         content |-> messages[i].content]]

\* _call_gemini lines 120-123.
gemini_messages(messages) ==
    [i \in 1..Len(messages) |->
        [role |-> IF messages[i].role \in {"user", "against_agent", "for_agent"}
                  THEN "user" ELSE "model",
         parts |-> <<messages[i].content>>]]

\* _call_gemini lines 125-126: all but the last turn is the chat history, and
\* the last turn's text is what send_message sends (the empty string when
\* there is no turn at all).
gemini_chat(messages) ==
    LET g == gemini_messages(messages) IN
    [history |-> IF g # <<>> THEN SubSeq(g, 1, Len(g) - 1) ELSE <<>>,
     message |-> IF g # <<>> THEN g[Len(g)].parts[1] ELSE ""]

\* The turns as the backend receives them: send_message delivers its text as
\* a turn of the user.
gemini_turns(messages) ==
    LET chat == gemini_chat(messages) IN
    [i \in 1..Len(chat.history) |->
        [role |-> chat.history[i].role, content |-> chat.history[i].parts[1]]]
    \o <<[role |-> "user", content |-> chat.message]>>

\* What the backend of a model is sent (the request of the SDK call).
BackendRequest(model, system_prompt, messages) ==
    LET provider == get_provider(model) IN
    IF provider = "claude"
    THEN [provider |-> provider, system |-> system_prompt,
          turns |-> claude_messages(messages)]
    ELSE IF provider = "gpt"
    THEN [provider |-> provider, system |-> system_prompt,
          turns |-> gpt_messages(system_prompt, messages)]
    ELSE [provider |-> provider, system |-> system_prompt,
          turns |-> gemini_turns(messages)]

(***************************************************************************)
(* models/debate.py                                                        *)
(***************************************************************************)
Message(role, content) == [role |-> role, content |-> content]

DebateState(debate_id, proposition, for_model, against_model, max_turns) ==
    [debate_id |-> debate_id, proposition |-> proposition,
     for_model |-> for_model, against_model |-> against_model,
     status |-> "created", messages |-> <<>>, current_turn |-> 0,
     max_turns |-> max_turns, created_at |-> "utcnow"]

(***************************************************************************)
(* storage/memory_store.py                                                 *)
(***************************************************************************)
\* get_debate: self._debates.get(debate_id), the stored object itself.
get_debate(debate_id) == DictGet(debates, debate_id)

\* create_debate / update_debate: self._debates[debate.debate_id] = debate.
DictSet(d, k, v) == [x \in DOMAIN d \cup {k} |-> IF x = k THEN v ELSE d[x]]

UpdateDebateEveryKey(store, objects, ref) == [k \in DOMAIN store |-> ref]

update_debate(store, objects, ref) == DictSet(store, objects[ref].debate_id, ref)

\* list_debates: the stored objects.
list_debates == {debates[k] : k \in DOMAIN debates}

(***************************************************************************)
(* services/debate_service.py: helpers of conduct_turn                     *)
(***************************************************************************)
\* _prepare_messages_for_agent
prepare_messages_for_agent(messages, agent_role) ==
    [i \in 1..Len(messages) |->
        IF messages[i].role = agent_role
        THEN [role |-> "assistant", content |-> messages[i].content]
        ELSE [role |-> "user", content |-> messages[i].content]]

\* _get_system_prompt: one fixed template per position (the proposition is
\* interpolated into it; the model has a single proposition).
get_system_prompt(position) ==
    IF position = "for" THEN "argue FOR" ELSE "argue AGAINST"

JudgePrompt == "expert debate adjudicator"

ConductTurnGuardNoStatusTest(debate, objects) ==
    IF debate = None THEN "NotFound" ELSE "ok"

\* lines 75-80: the errors conduct_turn raises right after loading.
conduct_turn_guard(debate, objects) ==
    IF debate = None THEN "NotFound"
    ELSE IF objects[debate].status = "completed" THEN "AlreadyCompleted"
    ELSE "ok"

AdjudicateGuardCreatedOnly(debate, objects) ==
    IF debate = None THEN "NotFound"
    ELSE IF objects[debate].status = "created" THEN "NotCompleted"
    ELSE "ok"

AdjudicateGuardOneTest(debate, objects) ==
    IF debate = None THEN "NotCompleted"
    ELSE IF objects[debate].status # "completed" THEN "NotCompleted"
    ELSE "ok"

\* lines 156-161: the errors adjudicate_debate raises right after loading.
adjudicate_guard(debate, objects) ==
    IF debate = None THEN "NotFound"
    ELSE IF objects[debate].status # "completed" THEN "NotCompleted"
    ELSE "ok"

AppendMessageReplacing(messages, role, content) == <<Message(role, content)>>

\* lines 97 and 110: debate.messages.append(Message(role=..., content=...)).
AppendMessage(messages, role, content) == Append(messages, Message(role, content))

\* lines 91 and 104: the model each of the two calls is made with.
ForCallModel(d) == d.for_model

AgainstCallModelCopied(d) == d.for_model

AgainstCallModel(d) == d.against_model

NextTurnPerMessage(current_turn) == current_turn + 2

\* line 113
NextTurn(current_turn) == current_turn + 1

StartStatusKept(status) == status

\* lines 83-84: created becomes in_progress when a turn starts.
StartStatus(status) == IF status = "created" THEN "in_progress" ELSE status

IsCompleteStrict(current_turn, max_turns) == current_turn > max_turns

\* lines 116-117: the completion test after the increment.
IsComplete(current_turn, max_turns) == current_turn >= max_turns

(***************************************************************************)
(* Requests.                                                               *)
(***************************************************************************)
NoKeys == [k \in {} |-> ""]

\* A request: the service operation it is in (op, pc and what the operation
\* holds), and, for a request that came through a route of routes/debate.py,
\* the route, the HTTP status and detail it answered with (http 0: no answer
\* yet), the number of conduct_turn calls the route has made, what the route
\* found stored when it was entered, and the snapshot it returned.
IdleReq ==
    [op |-> "none", pc |-> "idle", debate_id |-> None, debate |-> None,
     api_keys |-> NoKeys, model |-> None, calls |-> <<>>,
     for_messages |-> <<>>, against_messages |-> <<>>,
     transcript |-> <<>>, before |-> <<>>, result |-> None,
     verdict |-> <<>>, raw |-> <<>>, response |-> <<>>,
     route |-> None, http |-> 0, detail |-> None, turns |-> 0,
     entry |-> <<>>, returned |-> <<>>]

Free(p) == req[p].pc \in {"idle", "done"}

\* What a caller can observe of a stored debate.
View(d) == [status |-> d.status, messages |-> d.messages,
            current_turn |-> d.current_turn]

Snapshot(debate_id) ==
    IF debate_id \in DOMAIN debates THEN <<View(heap[debates[debate_id]])>> ELSE <<>>

\* One generate_response call: the model asked for, the error raised before
\* any backend is contacted (with the credential it names), whether a
\* backend was contacted, and with what.
Call(model, system_prompt, messages, api_keys) ==
    [model |-> model,
     error |-> Dispatch(model, api_keys),
     names |-> IF Dispatch(model, api_keys) = "MissingCredential"
               THEN <<CredentialName(get_provider(model))>>
               ELSE <<>>,
     sent |-> Dispatch(model, api_keys) = "call",
     request |-> IF Dispatch(model, api_keys) = "call"
                 THEN <<BackendRequest(model, system_prompt, messages)>>
                 ELSE <<>>]

Init ==
    /\ debates = [k \in {} |-> None]
    /\ heap = [k \in {} |-> None]
    /\ req = [p \in Procs |-> IdleReq]
    /\ failed = [d \in DebateIds |-> 0]
    /\ llm = LLMService

(***************************************************************************)
(* routes/debate.py create_debate: DebateState(...) with a fresh uuid4,    *)
(* then debate_store.create_debate.  The object is new, and its reference  *)
(* is named after the identifier it was built for.                         *)
(***************************************************************************)
CreateDebate(debate_id, proposition, for_model, against_model, max_turns) ==
    /\ debate_id \notin DOMAIN heap
    /\ heap' = DictSet(heap, debate_id,
                       DebateState(debate_id, proposition, for_model,
                                   against_model, max_turns))
    /\ debates' = DictSet(debates, debate_id, debate_id)
    /\ UNCHANGED <<req, failed, llm>>

(***************************************************************************)
(* DebateService.conduct_turn                                              *)
(***************************************************************************)
\* routes/debate.py lines 114-115 and 149-150: an exception that leaves the
\* service inside a route's try block is answered with status 500.
ErrorDetail(route) ==
    IF route = "start_debate" THEN "Error during debate"
    ELSE IF route = "adjudicate_debate" THEN "Error during adjudication"
    ELSE None

\* The operation raises: the request ends with the error; in a route, with
\* the 500 answer.
Raise(r, error) ==
    [r EXCEPT !.pc = "done", !.result = error, !.api_keys = NoKeys,
              !.http = IF r.route = None THEN 0 ELSE 500,
              !.detail = ErrorDetail(r.route)]

\* The part of a request that a service call made by a route keeps.
Inner(r) ==
    [IdleReq EXCEPT !.route = r.route, !.turns = r.turns, !.entry = r.entry]

\* lines 75-95: load, the two guards, the status change, the FOR call.
\* (willFail only keeps failed within MaxFailures: a call whose model or
\* credentials make one of its two provider calls raise is not started once
\* the cap is reached.)
ConductTurnEnter(p, debate_id, api_keys, r) ==
    LET debate == get_debate(debate_id)
        guard == conduct_turn_guard(debate, heap)
        r0 == [Inner(r) EXCEPT !.op = "conduct_turn", !.debate_id = debate_id,
                               !.before = Snapshot(debate_id)]
    IN
    IF guard # "ok" THEN
         /\ req' = [req EXCEPT ![p] = Raise(r0, guard)]
         /\ UNCHANGED <<debates, heap, failed, llm>>
    ELSE
         LET h1 == [heap EXCEPT ![debate].status = StartStatus(@)]
             for_messages ==
                 prepare_messages_for_agent(h1[debate].messages, "for_agent")
             for_model == ForCallModel(h1[debate])
             r1 == [r0 EXCEPT
                      !.debate = debate,
                      !.for_messages = for_messages,
                      !.calls = <<Call(for_model, get_system_prompt("for"),
                                       for_messages, api_keys)>>]
             out == Dispatch(for_model, api_keys)
             willFail == \/ out # "call"
                         \/ Dispatch(AgainstCallModel(h1[debate]), api_keys) # "call"
         IN
         /\ willFail => failed[debate_id] < MaxFailures
         /\ heap' = h1
         /\ llm' = Configure(llm, for_model, api_keys)
         /\ UNCHANGED debates
         /\ IF out = "call"
            THEN /\ req' = [req EXCEPT ![p] =
                              [r1 EXCEPT !.pc = "for_call", !.api_keys = api_keys]]
                 /\ UNCHANGED failed
            ELSE /\ req' = [req EXCEPT ![p] = Raise(r1, out)]
                 /\ failed' = [failed EXCEPT ![debate_id] = @ + 1]

\* conduct_turn called on the service directly.
ConductTurnBegin(p, debate_id, api_keys) ==
    /\ Free(p)
    /\ ConductTurnEnter(p, debate_id, api_keys, IdleReq)

\* lines 97-108: the FOR text is appended to the loaded object, then the
\* AGAINST call is made with the history rebuilt from it.
ForReturn(p, text) ==
    /\ req[p].pc = "for_call"
    /\ LET debate == req[p].debate
           h1 == [heap EXCEPT ![debate].messages =
                                 AppendMessage(@, "for_agent", text)]
           against_messages ==
               prepare_messages_for_agent(h1[debate].messages, "against_agent")
           against_model == AgainstCallModel(h1[debate])
           r1 == [req[p] EXCEPT
                    !.against_messages = against_messages,
                    !.calls = Append(@, Call(against_model, get_system_prompt("against"),
                                             against_messages, req[p].api_keys))]
           out == Dispatch(against_model, req[p].api_keys)
       IN
       /\ heap' = h1
       /\ llm' = Configure(llm, against_model, req[p].api_keys)
       /\ UNCHANGED debates
       /\ IF out = "call"
          THEN /\ req' = [req EXCEPT ![p] = [r1 EXCEPT !.pc = "against_call"]]
               /\ UNCHANGED failed
          ELSE /\ req' = [req EXCEPT ![p] = Raise(r1, out)]
               /\ failed' = [failed EXCEPT ![req[p].debate_id] = @ + 1]

\* The backend call of the FOR agent raises (network, quota, bad response).
ForFail(p) ==
    /\ req[p].pc = "for_call"
    /\ failed[req[p].debate_id] < MaxFailures
    /\ req' = [req EXCEPT ![p] = Raise(@, "ProviderError")]
    /\ failed' = [failed EXCEPT ![req[p].debate_id] = @ + 1]
    /\ UNCHANGED <<debates, heap, llm>>

\* lines 110-122: append the AGAINST text, count the turn, complete, update.
\* Called by the start_debate route, the returned object goes back to the
\* loop of the route (pc "loop"); no await lies between the two.
AgainstReturn(p, text) ==
    /\ req[p].pc = "against_call"
    /\ LET debate == req[p].debate
           h1 == [heap EXCEPT ![debate].messages =
                                 AppendMessage(@, "against_agent", text)]
           h2 == [h1 EXCEPT ![debate].current_turn = NextTurn(@)]
           h3 == IF IsComplete(h2[debate].current_turn, h2[debate].max_turns)
                 THEN [h2 EXCEPT ![debate].status = "completed"]
                 ELSE h2
       IN
       /\ heap' = h3
       /\ debates' = update_debate(debates, h3, debate)
       /\ req' = [req EXCEPT ![p] =
                    IF @.route = "start_debate"
                    THEN [@ EXCEPT !.pc = "loop", !.result = "ok"]
                    ELSE [@ EXCEPT !.pc = "done", !.result = "ok",
                                   !.api_keys = NoKeys]]
       /\ UNCHANGED <<failed, llm>>

\* The backend call of the AGAINST agent raises.
AgainstFail(p) ==
    /\ req[p].pc = "against_call"
    /\ failed[req[p].debate_id] < MaxFailures
    /\ req' = [req EXCEPT ![p] = Raise(@, "ProviderError")]
    /\ failed' = [failed EXCEPT ![req[p].debate_id] = @ + 1]
    /\ UNCHANGED <<debates, heap, llm>>

(***************************************************************************)
(* routes/debate.py start_debate                                           *)
(***************************************************************************)
StartDebateGuardNoStatusTest(debate, objects) ==
    IF debate = None THEN [http |-> 404, detail |-> "Debate not found"]
    ELSE [http |-> 0, detail |-> None]

\* lines 92-97: what the route answers before it calls the service.
start_debate_guard(debate, objects) ==
    IF debate = None THEN [http |-> 404, detail |-> "Debate not found"]
    ELSE IF objects[debate].status \notin {"created", "in_progress"}
    THEN [http |-> 400, detail |-> "Debate is already completed"]
    ELSE [http |-> 0, detail |-> None]

\* lines 92-102: load, the two answers, then the first conduct_turn call of
\* the loop (the loaded debate is not completed here).
StartDebateBegin(p, debate_id, api_keys) ==
    /\ Free(p)
    /\ LET debate == get_debate(debate_id)
           answer == start_debate_guard(debate, heap)
           r == [IdleReq EXCEPT !.route = "start_debate", !.debate_id = debate_id,
                                !.entry = Snapshot(debate_id)]
       IN
       IF answer.http # 0 THEN
            /\ req' = [req EXCEPT ![p] =
                         [r EXCEPT !.pc = "done", !.http = answer.http,
                                   !.detail = answer.detail]]
            /\ UNCHANGED <<debates, heap, failed, llm>>
       ELSE ConductTurnEnter(p, debate_id, api_keys, [r EXCEPT !.turns = 1])

\* lines 101-113: the while test on the object conduct_turn returned; either
\* the next conduct_turn call or the 200 answer with the snapshot.
StartDebateLoop(p) ==
    /\ req[p].pc = "loop"
    /\ LET debate == req[p].debate IN
       IF heap[debate].status # "completed"
       THEN ConductTurnEnter(p, req[p].debate_id, req[p].api_keys,
                             [req[p] EXCEPT !.turns = @ + 1])
       ELSE /\ req' = [req EXCEPT ![p] =
                         [@ EXCEPT !.pc = "done", !.http = 200,
                                   !.api_keys = NoKeys,
                                   !.returned = <<View(heap[debate])>>]]
            /\ UNCHANGED <<debates, heap, failed, llm>>

(***************************************************************************)
(* DebateService.adjudicate_debate: the response text.                     *)
(*                                                                         *)
(* A response is a sequence of atoms, each standing for a piece of text:   *)
(*   "FENCE" the three-backquote mark  "json"  the tag right after it      *)
(*   "_"     white space               "x"     one character of other text *)
(*   "P..."  a JSON value (see Payload)                                    *)
(*   "Q_open", "Q_close"  the two parts of a JSON object around a fence    *)
(*           mark that stands inside its reasoning string                  *)
(*   "~"     what is left of a longer atom whose last character was cut    *)
(***************************************************************************)
Fence == "FENCE"
Tag == "json"
Space == "_"
Junk == "x"
Cut == "~"

PayloadAtoms ==
    {"P_for", "P_tie", "P_nofield", "P_winner", "P_range", "P_noscore", "P_list"}

\* json.loads of a payload atom: the dict it denotes.
Payload(atom) ==
    CASE atom = "P_for" ->
           [winner |-> "for", for_score |-> 80, against_score |-> 40,
            reasoning |-> "clear wins"]
      [] atom = "P_tie" ->
           [winner |-> "tie", for_score |-> 50, against_score |-> 50,
            reasoning |-> "even"]
      [] atom = "P_nofield" ->
           [winner |-> "for", for_score |-> 80, against_score |-> 40]
      [] atom = "P_winner" ->
           [winner |-> "nobody", for_score |-> 80, against_score |-> 40,
            reasoning |-> "clear wins"]
      [] atom = "P_range" ->
           [winner |-> "against", for_score |-> 40, against_score |-> 150,
            reasoning |-> "clear wins"]
      [] atom = "P_noscore" ->
           [winner |-> "against", against_score |-> 60,
            reasoning |-> "clear wins"]
      [] atom = "P_list" -> <<"for", 80, 40, "clear wins">>

\* A JSON object whose reasoning string quotes the fence mark, as text and
\* as the dict it denotes.
QuotedFence == <<"Q_open", Fence, "Q_close">>

QuotedFencePayload ==
    [winner |-> "against", for_score |-> 30, against_score |-> 70,
     reasoning |-> "quotes FENCE"]

\* str.strip(): leading and trailing white space removed.
RECURSIVE StripLeft(_)
StripLeft(t) ==
    IF t # <<>> /\ Head(t) = Space THEN StripLeft(Tail(t)) ELSE t

RECURSIVE StripRight(_)
StripRight(t) ==
    IF t # <<>> /\ t[Len(t)] = Space THEN StripRight(SubSeq(t, 1, Len(t) - 1)) ELSE t

Strip(t) == StripRight(StripLeft(t))

\* str.find(Fence + Tag): 0-based index of the first fence followed by the
\* tag, or -1.
FindFenceTag(t) ==
    LET hits == {i \in 1..(Len(t) - 1) : t[i] = Fence /\ t[i + 1] = Tag} IN
    IF hits = {} THEN -1 ELSE (CHOOSE i \in hits : \A j \in hits : i <= j) - 1

\* str.find(Fence, start): 0-based index of the first fence at or after
\* start, or -1.
FindFence(t, start) ==
    LET hits == {i \in 1..Len(t) : t[i] = Fence /\ i - 1 >= start} IN
    IF hits = {} THEN -1 ELSE (CHOOSE i \in hits : \A j \in hits : i <= j) - 1

\* The text without its last character: a one-character atom goes, a longer
\* atom is left cut.
DropLastChar(t) ==
    IF t = <<>> THEN <<>>
    ELSE IF t[Len(t)] \in {Junk, Space} THEN SubSeq(t, 1, Len(t) - 1)
    ELSE [t EXCEPT ![Len(t)] = Cut]

\* text[start:end] with end as find returned it: -1 is Python's "up to the
\* last character, exclusive".
Slice(t, start, end) ==
    IF end = -1
    THEN LET d == DropLastChar(t) IN SubSeq(d, start + 1, Len(d))
    ELSE SubSeq(t, start + 1, end)

\* lines 177-187: the text handed to json.loads.
ExtractJson(response) ==
    LET response_text == Strip(response) IN
    IF FindFenceTag(response_text) # -1
    THEN LET start == FindFenceTag(response_text) + 2
             end == FindFence(response_text, start)
         IN Strip(Slice(response_text, start, end))
    ELSE IF FindFence(response_text, 0) # -1
    THEN LET start == FindFence(response_text, 0) + 1
             end == FindFence(response_text, start)
         IN Strip(Slice(response_text, start, end))
    ELSE response_text

\* json.loads accepts one JSON value with white space around it.
JsonOk(text) ==
    \/ Len(Strip(text)) = 1 /\ Strip(text)[1] \in PayloadAtoms
    \/ Strip(text) = QuotedFence

\* json.loads of an accepted text: whether the value is a mapping (what the
\* ** of line 190 needs), and the value.
JsonLoads(text) ==
    LET t == Strip(text) IN
    IF t = QuotedFence THEN [mapping |-> TRUE, value |-> QuotedFencePayload]
    ELSE [mapping |-> t[1] # "P_list", value |-> Payload(t[1])]

\* AdjudicationResult(**result_dict): pydantic requires the four fields and a
\* winner among the Literal values; the scores are floats of any size.
Winners == {"for", "against", "tie"}
Fields == {"winner", "for_score", "against_score", "reasoning"}

Validates(dict) ==
    /\ Fields \subseteq DOMAIN dict
    /\ dict.winner \in Winners
    /\ dict.for_score \in Int
    /\ dict.against_score \in Int

\* lines 175-192: the outcome of parsing.  JSONDecodeError (and KeyError) is
\* turned into the ValueError that quotes the response; the TypeError of **
\* on a value that is no mapping and pydantic's ValidationError are not in
\* the except clause and leave the call as they are.
ParseAdjudication(response) ==
    LET text == ExtractJson(response) IN
    IF ~JsonOk(text)
    THEN [error |-> "AdjudicationParseError", raw |-> <<response>>, verdict |-> <<>>]
    ELSE IF ~JsonLoads(text).mapping
    THEN [error |-> "TypeError", raw |-> <<>>, verdict |-> <<>>]
    ELSE IF ~Validates(JsonLoads(text).value)
    THEN [error |-> "ValidationError", raw |-> <<>>, verdict |-> <<>>]
    ELSE [error |-> "ok", raw |-> <<>>, verdict |-> <<JsonLoads(text).value>>]

(***************************************************************************)
(* DebateService.adjudicate_debate                                         *)
(***************************************************************************)
\* _get_adjudicator_prompt lines 31-34: the transcript, one labelled block
\* per message, in message order.
Transcript(messages) ==
    [i \in 1..Len(messages) |->
        [label |-> IF messages[i].role = "for_agent" THEN "FOR" ELSE "AGAINST",
         content |-> messages[i].content]]

\* lines 156-172: load, the two guards, the one provider call, made with the
\* adjudicator prompt as the only user turn.
AdjudicateEnter(p, debate_id, adjudicator_model, api_keys, r) ==
    LET debate == get_debate(debate_id)
        guard == adjudicate_guard(debate, heap)
        r0 == [Inner(r) EXCEPT !.op = "adjudicate", !.debate_id = debate_id,
                               !.model = adjudicator_model,
                               !.before = Snapshot(debate_id)]
    IN
    /\ IF guard # "ok" THEN
           /\ req' = [req EXCEPT ![p] = Raise(r0, guard)]
           /\ UNCHANGED llm
       ELSE
           LET r1 == [r0 EXCEPT
                        !.debate = debate,
                        !.transcript = Transcript(heap[debate].messages),
                        !.calls = <<Call(adjudicator_model, JudgePrompt,
                                         <<[role |-> "user",
                                            content |-> "adjudicator prompt"]>>,
                                         api_keys)>>]
               out == Dispatch(adjudicator_model, api_keys)
           IN /\ llm' = Configure(llm, adjudicator_model, api_keys)
              /\ IF out = "call"
                 THEN req' = [req EXCEPT ![p] =
                                [r1 EXCEPT !.pc = "adj_call", !.api_keys = api_keys]]
                 ELSE req' = [req EXCEPT ![p] = Raise(r1, out)]
    /\ UNCHANGED <<debates, heap, failed>>

\* adjudicate_debate called on the service directly.
AdjudicateBegin(p, debate_id, adjudicator_model, api_keys) ==
    /\ Free(p)
    /\ AdjudicateEnter(p, debate_id, adjudicator_model, api_keys, IdleReq)

\* lines 174-192: the response is parsed; nothing is stored.  In the route
\* the result is the 200 answer and an error the 500 answer.
AdjudicateReturn(p, response) ==
    /\ req[p].pc = "adj_call"
    /\ LET parsed == ParseAdjudication(response) IN
       req' = [req EXCEPT ![p] =
                 IF parsed.error = "ok"
                 THEN [@ EXCEPT !.pc = "done", !.result = "ok",
                                !.api_keys = NoKeys,
                                !.response = <<response>>,
                                !.verdict = parsed.verdict, !.raw = parsed.raw,
                                !.http = IF req[p].route = None THEN 0 ELSE 200]
                 ELSE [Raise(@, parsed.error) EXCEPT
                                !.response = <<response>>,
                                !.verdict = parsed.verdict, !.raw = parsed.raw]]
    /\ UNCHANGED <<debates, heap, failed, llm>>

\* The backend call of the adjudicator raises.
AdjudicateFail(p) ==
    /\ req[p].pc = "adj_call"
    /\ req' = [req EXCEPT ![p] = Raise(@, "ProviderError")]
    /\ UNCHANGED <<debates, heap, failed, llm>>

(***************************************************************************)
(* routes/debate.py adjudicate_debate                                      *)
(***************************************************************************)
\* lines 135-140: what the route answers before it calls the service.
adjudicate_route_guard(debate, objects) ==
    IF debate = None THEN [http |-> 404, detail |-> "Debate not found"]
    ELSE IF objects[debate].status # "completed"
    THEN [http |-> 400, detail |-> "Debate must be completed before adjudication"]
    ELSE [http |-> 0, detail |-> None]

\* lines 135-148: load, the two answers, then the service call.
AdjudicateRouteBegin(p, debate_id, adjudicator_model, api_keys) ==
    /\ Free(p)
    /\ LET debate == get_debate(debate_id)
           answer == adjudicate_route_guard(debate, heap)
           r == [IdleReq EXCEPT !.route = "adjudicate_debate",
                                !.debate_id = debate_id,
                                !.entry = Snapshot(debate_id)]
       IN
       IF answer.http # 0 THEN
            /\ req' = [req EXCEPT ![p] =
                         [r EXCEPT !.pc = "done", !.http = answer.http,
                                   !.detail = answer.detail]]
            /\ UNCHANGED <<debates, heap, failed, llm>>
       ELSE AdjudicateEnter(p, debate_id, adjudicator_model, api_keys, r)

(***************************************************************************)
(* Specification: requests run one after another (a request starts only    *)
(* when no other is in flight); provider calls return any text or fail.    *)
(***************************************************************************)
\* The debates created: one identifier (the other stays absent), the two
\* sides on different backends, or one side on a model no backend has.
CreateIds == {"d1"}
ModelPairs == {<<"gpt-4o", "claude-3-5-sonnet-20241022">>,
               <<"gpt-4o", "not-a-real-model">>,
               <<"not-a-real-model", "gpt-4o">>}
AdjudicatorModels == {"gemini-1.5-pro", "not-a-real-model"}
ApiKeyChoices == {[k \in S |-> "sk"] : S \in {KeyNames, {"openai"}, {"anthropic"}}}
AdjResponses == {<<"P_for">>, <<Fence, Tag, Space, "P_tie", Space, Fence>>,
                 <<Fence, Tag, "P_for">>, <<"P_nofield">>}
SeqProcs == {"p1"}

AllFree == \A p \in Procs : Free(p)

Create ==
    \E debate_id \in CreateIds, proposition \in Propositions,
       models \in ModelPairs, max_turns \in 1..MaxTurns :
        CreateDebate(debate_id, proposition, models[1], models[2], max_turns)

TurnBegin ==
    \E p \in SeqProcs, debate_id \in DebateIds, api_keys \in ApiKeyChoices :
        AllFree /\ ConductTurnBegin(p, debate_id, api_keys)

TurnForReturn == \E p \in Procs, text \in Texts : ForReturn(p, text)
TurnForFail == \E p \in Procs : ForFail(p)
TurnAgainstReturn == \E p \in Procs, text \in Texts : AgainstReturn(p, text)
TurnAgainstFail == \E p \in Procs : AgainstFail(p)

AdjBegin ==
    \E p \in SeqProcs, debate_id \in DebateIds, m \in AdjudicatorModels,
       api_keys \in ApiKeyChoices :
        AllFree /\ AdjudicateBegin(p, debate_id, m, api_keys)

AdjReturn == \E p \in Procs, response \in AdjResponses : AdjudicateReturn(p, response)
AdjFail == \E p \in Procs : AdjudicateFail(p)

StartBegin ==
    \E p \in SeqProcs, debate_id \in DebateIds, api_keys \in ApiKeyChoices :
        AllFree /\ StartDebateBegin(p, debate_id, api_keys)

StartLoop == \E p \in Procs : StartDebateLoop(p)

AdjRouteBegin ==
    \E p \in SeqProcs, debate_id \in DebateIds, m \in AdjudicatorModels,
       api_keys \in ApiKeyChoices :
        AllFree /\ AdjudicateRouteBegin(p, debate_id, m, api_keys)

Next ==
    \/ Create
    \/ TurnBegin
    \/ TurnForReturn
    \/ TurnForFail
    \/ TurnAgainstReturn
    \/ TurnAgainstFail
    \/ AdjBegin
    \/ AdjReturn
    \/ AdjFail
    \/ StartBegin
    \/ StartLoop
    \/ AdjRouteBegin

Spec == Init /\ [][Next]_vars

(***************************************************************************)
(* Properties.                                                             *)
(***************************************************************************)
Stored(d) == heap[debates[d]]

Rank(status) ==
    IF status = "created" THEN 0 ELSE IF status = "in_progress" THEN 1 ELSE 2

Alternates(messages) ==
    \A i \in 1..Len(messages) :
        messages[i].role = IF i % 2 = 1 THEN "for_agent" ELSE "against_agent"

\* The step in which request p starts operation op on debate identifier d.
Starts(p, op, d) ==
    /\ Free(p)
    /\ req'[p] # req[p]
    /\ req'[p].op = op
    /\ req'[p].debate_id = d

StoreUnchanged == debates' = debates /\ heap' = heap

ProviderFailures == {"ProviderError", "UnknownModel", "MissingCredential"}

\* C1: after sequentially executed conduct_turn calls that all completed
\* successfully (no request in flight, no call on the debate has raised after
\* loading it), the stored debate has len(messages) = 2 * current_turn and
\* its roles alternate for_agent, against_agent, ... from for_agent.
C1_TwoMessagesPerTurn ==
    \A d \in DOMAIN debates :
        (AllFree /\ failed[d] = 0) =>
            /\ Len(Stored(d).messages) = 2 * Stored(d).current_turn
            /\ Alternates(Stored(d).messages)

C1_Witness ==
    \E d \in DOMAIN debates :
        /\ AllFree /\ failed[d] = 0
        /\ Stored(d).current_turn = 2
        /\ Len(Stored(d).messages) = 4

\* C2: under sequential conduct_turn calls on a debate with max_turns >= 1,
\* current_turn never exceeds max_turns and the status is completed exactly
\* when current_turn equals max_turns.
C2_CompletedAtMaxTurns ==
    \A d \in DOMAIN debates :
        /\ Stored(d).current_turn <= Stored(d).max_turns
        /\ Stored(d).status = "completed"
               <=> Stored(d).current_turn = Stored(d).max_turns

C2_Witness ==
    \E d \in DOMAIN debates :
        /\ Stored(d).status = "completed"
        /\ Stored(d).max_turns = 2
        /\ Stored(d).current_turn = 2

\* C3: a conduct_turn call that starts on a completed debate fails with
\* AlreadyCompleted, makes no provider call and leaves the store as it was;
\* and no step takes a completed debate to another status.
C3_CompletedIsTerminal ==
    [][\A d \in DOMAIN debates :
          Stored(d).status = "completed" =>
              /\ d \in DOMAIN debates' /\ heap'[debates'[d]].status = "completed"
              /\ \A p \in Procs :
                    Starts(p, "conduct_turn", d) =>
                        /\ req'[p].pc = "done"
                        /\ req'[p].result = "AlreadyCompleted"
                        /\ req'[p].calls = <<>>
                        /\ StoreUnchanged]_vars

C3_Witness ==
    \E p \in Procs :
        /\ req[p].op = "conduct_turn" /\ req[p].result = "AlreadyCompleted"
        /\ req[p].debate_id \in DOMAIN debates
        /\ Stored(req[p].debate_id).status = "completed"

\* C4 (as claimed): after a conduct_turn whose FOR or AGAINST provider call
\* failed, the stored debate has the status, messages and current_turn it had
\* before the call.
C4_FailedTurnUnpersisted ==
    \A p \in Procs :
        (/\ req[p].op = "conduct_turn" /\ req[p].pc = "done"
         /\ req[p].result \in ProviderFailures) =>
            Snapshot(req[p].debate_id) = req[p].before

\* C5: the stored status only moves forward along created, in_progress,
\* completed; a conduct_turn call that starts on a created debate takes it to
\* in_progress, whether or not the call then succeeds; and a debate with
\* current_turn >= 1 is never in status created.
C5_StatusForward ==
    /\ [](\A d \in DOMAIN debates :
            Stored(d).current_turn >= 1 => Stored(d).status # "created")
    /\ [][\A d \in DOMAIN debates :
            /\ d \in DOMAIN debates'
            /\ Rank(Stored(d).status) <= Rank(heap'[debates'[d]].status)
            /\ \A p \in Procs :
                  (Starts(p, "conduct_turn", d) /\ Stored(d).status = "created")
                      => heap'[debates'[d]].status = "in_progress"]_vars

C5_Witness ==
    \E p \in Procs :
        /\ req[p].op = "conduct_turn" /\ req[p].pc = "done"
        /\ req[p].result \in ProviderFailures
        /\ req[p].before # <<>> /\ req[p].before[1].status = "created"
        /\ Stored(req[p].debate_id).status = "in_progress"
        /\ Stored(req[p].debate_id).current_turn = 0

\* C6: an adjudicate call that starts on a debate in status created or
\* in_progress fails with NotCompleted and makes no provider call; an
\* adjudicate call makes a provider call only if the debate it loaded was
\* completed.
C6_AdjudicateNeedsCompleted ==
    [][\A p \in Procs, d \in DebateIds :
          Starts(p, "adjudicate", d) =>
              /\ (d \in DOMAIN debates /\ Stored(d).status # "completed") =>
                    /\ req'[p].pc = "done"
                    /\ req'[p].result = "NotCompleted"
                    /\ req'[p].calls = <<>>
              /\ req'[p].calls # <<>> =>
                    (d \in DOMAIN debates /\ Stored(d).status = "completed")]_vars

C6_Witness ==
    \E p \in Procs :
        /\ req[p].op = "adjudicate" /\ req[p].result = "NotCompleted"
        /\ req[p].calls = <<>>
        /\ Stored(req[p].debate_id).status = "in_progress"

\* C7 (as claimed): in a conduct_turn the AGAINST call is made only after the
\* FOR call returned, its history ends with the FOR message just appended and
\* has length 2 * current_turn + 1, and the FOR call's history has length
\* 2 * current_turn.
C7_HistoryLengths ==
    \A p \in Procs :
        (req[p].op = "conduct_turn" /\ req[p].calls # <<>>) =>
            LET turn == req[p].before[1].current_turn
                stored == Stored(req[p].debate_id).messages
            IN
            /\ Len(req[p].for_messages) = 2 * turn
            /\ Len(req[p].calls) = 2 =>
                  /\ Len(req[p].against_messages) = 2 * turn + 1
                  /\ Len(stored) >= 2 * turn + 1
                  /\ stored[2 * turn + 1].role = "for_agent"
                  /\ req[p].against_messages[2 * turn + 1] =
                        [role |-> "user", content |-> stored[2 * turn + 1].content]

\* C9: a successful conduct_turn made exactly two provider calls, the first
\* for for_model and the second for against_model, and a successful
\* adjudicate exactly one, for the adjudicator model; a failed operation
\* stopped at the call that failed (no call after it, none repeated), and
\* every backend contacted is the backend of the model the call was for.
CallModels(r) == [i \in 1..Len(r.calls) |-> r.calls[i].model]

C9_ProviderCalls ==
    \A p \in Procs :
        LET r == req[p] IN
        /\ \A i \in 1..Len(r.calls) :
              /\ r.calls[i].sent <=> r.calls[i].request # <<>>
              /\ r.calls[i].sent =>
                    r.calls[i].request[1].provider = get_provider(r.calls[i].model)
              /\ i < Len(r.calls) => r.calls[i].sent
        /\ (r.op = "conduct_turn" /\ r.calls # <<>>) =>
              /\ CallModels(r) \in
                    {<<Stored(r.debate_id).for_model>>,
                     <<Stored(r.debate_id).for_model, Stored(r.debate_id).against_model>>}
              /\ r.pc = "for_call" => Len(r.calls) = 1
              /\ r.pc = "against_call" => Len(r.calls) = 2
              /\ r.result = "ok" => (Len(r.calls) = 2 /\ r.calls[2].sent)
        /\ (r.op = "adjudicate" /\ r.calls # <<>>) =>
              /\ CallModels(r) = <<r.model>>
              /\ r.result = "ok" => r.calls[1].sent
        /\ (r.pc = "done" /\ r.result \in {"UnknownModel", "MissingCredential"}) =>
              (r.calls # <<>> /\ ~r.calls[Len(r.calls)].sent)
        /\ (r.pc = "done" /\ r.result = "ProviderError") =>
              (r.calls # <<>> /\ r.calls[Len(r.calls)].sent)

C9_Witness ==
    \E p \in Procs :
        /\ req[p].op = "conduct_turn" /\ req[p].result = "ok"
        /\ CallModels(req[p]) = <<"gpt-4o", "claude-3-5-sonnet-20241022">>

\* C10: a conduct_turn or adjudicate call that starts on an identifier the
\* store does not hold fails with NotFound, makes no provider call and leaves
\* the store (its identifiers and every stored debate) as it was.
C10_NotFound ==
    [][\A p \in Procs, d \in DebateIds :
          ((Starts(p, "conduct_turn", d) \/ Starts(p, "adjudicate", d))
            /\ d \notin DOMAIN debates) =>
              /\ req'[p].pc = "done"
              /\ req'[p].result = "NotFound"
              /\ req'[p].calls = <<>>
              /\ StoreUnchanged]_vars

C10_Witness ==
    \E p \in Procs :
        /\ req[p].result = "NotFound" /\ req[p].op = "adjudicate"
        /\ req[p].debate_id \notin DOMAIN debates
        /\ DOMAIN debates # {}

(***************************************************************************)
(* Role translation as a function of the message list: the debate starts   *)
(* with any message list of up to MaxHistory entries, and one step builds  *)
(* both agents' histories from it and the request a backend would be sent  *)
(* for each.                                                               *)
(***************************************************************************)
MaxHistory == 3

Roles == {"for_agent", "against_agent"}
RoleModels == {"claude-sonnet-4-5-20250929", "gpt-4-turbo", "gemini-2.0-flash-exp"}
AllKeys == [k \in KeyNames |-> "sk"]

RECURSIVE MessageLists(_)
MessageLists(n) ==
    IF n = 0 THEN {<<>>}
    ELSE LET shorter == MessageLists(n - 1) IN
         shorter \cup
         {Append(m, Message(role, text)) :
              m \in {x \in shorter : Len(x) = n - 1}, role \in Roles, text \in Texts}

InitRoles ==
    /\ debates = [k \in {"d1"} |-> "d1"]
    /\ \E messages \in MessageLists(MaxHistory) :
          heap = [k \in {"d1"} |->
                    [DebateState("d1", "X", "gpt-4o", "gpt-4o", MaxTurns)
                         EXCEPT !.messages = messages]]
    /\ req = [p \in Procs |-> IdleReq]
    /\ failed = [d \in DebateIds |-> 0]
    /\ llm = LLMService

\* conduct_turn lines 87-94 and 100-107 applied to the same message list, for
\* a backend model: prepare each agent's history and make the call with it.
PrepareBoth(p, model) ==
    /\ req[p].op = "none"
    /\ LET messages == heap["d1"].messages
           for_messages == prepare_messages_for_agent(messages, "for_agent")
           against_messages == prepare_messages_for_agent(messages, "against_agent")
       IN
       req' = [req EXCEPT ![p] =
                 [IdleReq EXCEPT
                    !.op = "prepare", !.pc = "done", !.debate_id = "d1",
                    !.model = model,
                    !.for_messages = for_messages,
                    !.against_messages = against_messages,
                    !.calls = <<Call(model, get_system_prompt("for"),
                                     for_messages, AllKeys),
                                Call(model, get_system_prompt("against"),
                                     against_messages, AllKeys)>>]]
    /\ UNCHANGED <<debates, heap, failed, llm>>

NextRoles == \E model \in RoleModels : PrepareBoth("p1", model)

SpecRoles == InitRoles /\ [][NextRoles]_vars

\* The turns of a backend request that stand for the history entries (the
\* OpenAI request carries the system prompt in front of them).
HistoryTurns(request) ==
    IF request.provider = "gpt" THEN Tail(request.turns) ELSE request.turns

SelfRole(role) == role \in {"assistant", "model"}

\* The history labels an agent's own messages assistant, the others user.
LabelsFor(view, messages, agent_role) ==
    /\ Len(view) = Len(messages)
    /\ \A i \in 1..Len(messages) :
          /\ view[i].content = messages[i].content
          /\ view[i].role = IF messages[i].role = agent_role
                            THEN "assistant" ELSE "user"

\* The backend is given every history entry with a role that tells the
\* agent's own turns from the opponent's.
KeepsLabels(request, view) ==
    /\ Len(HistoryTurns(request)) >= Len(view)
    /\ \A i \in 1..Len(view) :
          /\ HistoryTurns(request)[i].content = view[i].content
          /\ SelfRole(HistoryTurns(request)[i].role) <=> view[i].role = "assistant"

\* C8 (as claimed): for every message list, each agent's history has the
\* list's length and order, labels the agent's own messages assistant and the
\* opponent's user, the two agents' labels are the reverse of each other, and
\* the request every backend is sent keeps that distinction.
C8_RoleTranslation ==
    \A p \in Procs :
        req[p].op = "prepare" =>
            LET messages == heap["d1"].messages IN
            /\ LabelsFor(req[p].for_messages, messages, "for_agent")
            /\ LabelsFor(req[p].against_messages, messages, "against_agent")
            /\ \A i \in 1..Len(messages) :
                  req[p].for_messages[i].role # req[p].against_messages[i].role
            /\ KeepsLabels(req[p].calls[1].request[1], req[p].for_messages)
            /\ KeepsLabels(req[p].calls[2].request[1], req[p].against_messages)

(***************************************************************************)
(* LLMService.generate_response on its own: every model name of the three  *)
(* lists and two that are in none, with every credentials mapping over the *)
(* three key names (a key absent, None, empty, or set).                    *)
(***************************************************************************)
GenModels == ALL_MODELS \cup {"not-a-real-model", "GPT-4o"}
GenKeyValues == {None, "", "sk"}
GenApiKeys == UNION {[S -> GenKeyValues] : S \in SUBSET KeyNames}
GenMessages == <<[role |-> "user", content |-> "t1"]>>

InitGenerate ==
    /\ debates = [k \in {} |-> None]
    /\ heap = [k \in {} |-> None]
    /\ failed = [d \in DebateIds |-> 0]
    /\ llm = LLMService
    /\ \E model \in GenModels, api_keys \in GenApiKeys :
          req = [p \in Procs |->
                   IF p = "p1"
                   THEN [IdleReq EXCEPT !.op = "generate", !.model = model,
                                        !.api_keys = api_keys]
                   ELSE IdleReq]

\* generate_response lines 51-58 and the head of the backend method: the
\* provider lookup, the key check, the SDK configuration, the call.  The
\* arguments stay in the record.
GenerateResponse(p) ==
    /\ req[p].op = "generate" /\ req[p].pc = "idle"
    /\ LET model == req[p].model
           api_keys == req[p].api_keys
           out == Dispatch(model, api_keys)
           r1 == [req[p] EXCEPT
                    !.calls = <<Call(model, "system prompt", GenMessages, api_keys)>>]
       IN
       /\ llm' = Configure(llm, model, api_keys)
       /\ req' = [req EXCEPT ![p] =
                    IF out = "call" THEN [r1 EXCEPT !.pc = "gen_call"]
                    ELSE [r1 EXCEPT !.pc = "done", !.result = out]]
    /\ UNCHANGED <<debates, heap, failed>>

\* The backend answers with a text.
GenerateReturn(p, text) ==
    /\ req[p].pc = "gen_call"
    /\ req' = [req EXCEPT ![p] = [@ EXCEPT !.pc = "done", !.result = "ok",
                                            !.response = <<text>>]]
    /\ UNCHANGED <<debates, heap, failed, llm>>

\* The backend call raises.
GenerateFail(p) ==
    /\ req[p].pc = "gen_call"
    /\ req' = [req EXCEPT ![p] = [@ EXCEPT !.pc = "done",
                                            !.result = "ProviderError"]]
    /\ UNCHANGED <<debates, heap, failed, llm>>

GenCall == \E p \in Procs : GenerateResponse(p)
GenReturn == \E p \in Procs, text \in Texts : GenerateReturn(p, text)
GenFail == \E p \in Procs : GenerateFail(p)

NextGenerate ==
    \/ GenCall
    \/ GenReturn
    \/ GenFail

SpecGenerate == InitGenerate /\ [][NextGenerate]_vars

\* A generate_response call that has passed its checks.
Generated(p) == req[p].op = "generate" /\ req[p].pc # "idle"

BackendSets == {CLAUDE_MODELS, GPT_MODELS, GEMINI_MODELS}

\* C11: a generate call whose model is in none of the backend sets ends
\* with UnknownModel, with no backend contacted and no SDK configured,
\* whatever the credentials mapping holds.
C11_UnknownModel ==
    \A p \in Procs :
        (Generated(p) /\ \A models \in BackendSets : req[p].model \notin models)
        => /\ req[p].pc = "done"
           /\ req[p].result = "UnknownModel"
           /\ Len(req[p].calls) = 1
           /\ ~req[p].calls[1].sent
           /\ req[p].calls[1].request = <<>>
           /\ llm = LLMService

C11_Witness ==
    \E p \in Procs :
        /\ Generated(p)
        /\ req[p].model = "not-a-real-model"
        /\ req[p].api_keys = [k \in KeyNames |-> "sk"]
        /\ req[p].result = "UnknownModel"

\* The backend families: their models, the key of the credentials mapping
\* that holds their secret, and how an error names that credential.
Families ==
    {[models |-> CLAUDE_MODELS, key |-> "anthropic", named |-> "Anthropic"],
     [models |-> GPT_MODELS, key |-> "openai", named |-> "OpenAI"],
     [models |-> GEMINI_MODELS, key |-> "gemini", named |-> "Gemini"]}

NoSecret(api_keys, key) ==
    key \notin DOMAIN api_keys \/ api_keys[key] \in {None, ""}

\* C12: a generate call whose model belongs to a backend family, with no
\* secret or an empty one for that family, ends with MissingCredential
\* naming the credential of that family and contacts no backend, whatever
\* the mapping holds for the other families.
C12_MissingCredential ==
    \A p \in Procs, f \in Families :
        (Generated(p) /\ req[p].model \in f.models /\ NoSecret(req[p].api_keys, f.key))
        => /\ req[p].pc = "done"
           /\ req[p].result = "MissingCredential"
           /\ Len(req[p].calls) = 1
           /\ req[p].calls[1].names = <<f.named>>
           /\ ~req[p].calls[1].sent
           /\ req[p].calls[1].request = <<>>
           /\ llm = LLMService

C12_Witness ==
    \E p \in Procs :
        /\ Generated(p)
        /\ req[p].model = "gpt-4o"
        /\ req[p].api_keys =
              [k \in KeyNames |-> IF k = "openai" THEN "" ELSE "sk"]
        /\ req[p].result = "MissingCredential"
        /\ req[p].calls[1].names = <<"OpenAI">>

(***************************************************************************)
(* The parsing of adjudicate_debate on its own: one debate is run to       *)
(* completion and adjudicated, and the adjudicator answers with any text   *)
(* of up to MaxResponse atoms, or with a valid payload in one of the       *)
(* shapes an answer wraps it in.                                           *)
(***************************************************************************)
MaxResponse == 4

ParseAtoms ==
    {Fence, Tag, Space, Junk,
     "P_for", "P_nofield", "P_winner", "P_range", "P_noscore", "P_list"}

RECURSIVE AtomTexts(_)
AtomTexts(n) ==
    IF n = 0 THEN {<<>>}
    ELSE LET shorter == AtomTexts(n - 1) IN
         shorter \cup
         {Append(t, a) : t \in {x \in shorter : Len(x) = n - 1}, a \in ParseAtoms}

\* Valid four-field payloads, as text.
ValidPayloadTexts == {<<"P_for">>, <<"P_tie">>, QuotedFence}

Gaps == {<<>>, <<Space>>}

\* Other text before and after a fenced block (it holds no fence mark).
TextBefore == {<<>>, <<Junk>>, <<Junk, Space>>}
TextAfter == {<<>>, <<Junk>>, <<Space, Junk>>}

\* The payload bare, and in a fenced block without and with the json tag.
BareForms(pt) == {g1 \o pt \o g2 : g1 \in Gaps, g2 \in Gaps}

FencedForms(pt) ==
    {before \o <<Fence>> \o tag \o g1 \o pt \o g2 \o <<Fence>> \o after :
        before \in TextBefore, tag \in {<<>>, <<Tag>>},
        g1 \in Gaps, g2 \in Gaps, after \in TextAfter}

ParseResponses ==
    AtomTexts(MaxResponse) \cup
    UNION {BareForms(pt) \cup FencedForms(pt) : pt \in ValidPayloadTexts}

ParseCreate == CreateDebate("d1", "X", "gpt-4o", "gpt-4-turbo", 1)
ParseTurn == AllFree /\ ConductTurnBegin("p1", "d1", AllKeys)
ParseFor == ForReturn("p1", "t1")
ParseAgainst == AgainstReturn("p1", "t1")
ParseBegin == AllFree /\ AdjudicateBegin("p1", "d1", "gpt-4o", AllKeys)
ParseReturn == \E response \in ParseResponses : AdjudicateReturn("p1", response)

NextParse ==
    \/ ParseCreate
    \/ ParseTurn
    \/ ParseFor
    \/ ParseAgainst
    \/ ParseBegin
    \/ ParseReturn

SpecParse == Init /\ [][NextParse]_vars

\* An adjudicate call whose provider call returned a text.
Parsed(p) == req[p].op = "adjudicate" /\ req[p].response # <<>>

Decoded(pt) == IF pt = QuotedFence THEN QuotedFencePayload ELSE Payload(pt[1])

\* C13: for every valid four-field payload, the bare payload, the payload
\* in a fenced block without a tag and the payload in a fenced block with
\* the json tag, with or without other text around the block, all parse to
\* the result the payload denotes.
C13_FenceForms ==
    \A p \in Procs, pt \in ValidPayloadTexts :
        (Parsed(p) /\ req[p].response[1] \in BareForms(pt) \cup FencedForms(pt))
        => /\ req[p].result = "ok"
           /\ req[p].verdict = <<Decoded(pt)>>

FenceCount(response) ==
    Cardinality({i \in DOMAIN response : response[i] = Fence})

\* C14: a response with an opening fence mark and no fence mark after it
\* fails with AdjudicationParseError and returns no result, whatever
\* follows the opening mark.
C14_UnclosedFence ==
    \A p \in Procs :
        (Parsed(p) /\ FenceCount(req[p].response[1]) = 1)
        => /\ req[p].result = "AdjudicationParseError"
           /\ req[p].verdict = <<>>

\* C15: a response that does not yield the four-field result fails with
\* AdjudicationParseError, which carries the raw response text; no other
\* error kind ends the parsing.
C15_ParseFailures ==
    \A p \in Procs :
        (Parsed(p) /\ req[p].verdict = <<>>)
        => /\ req[p].result = "AdjudicationParseError"
           /\ req[p].raw = req[p].response

(***************************************************************************)
(* The store and the routes, under Spec.                                   *)
(***************************************************************************)
\* What list_debates shows of the debate with an identifier.
Listed(debate_id) ==
    {View(heap[ref]) : ref \in {x \in list_debates : heap[x].debate_id = debate_id}}

\* C16: while a conduct_turn call has loaded a debate and has not yet
\* called update_debate, get_debate and list_debates still show the debate
\* as it was loaded: the changes are made on a working copy.
C16_WorkingCopy ==
    \A p \in Procs :
        (req[p].op = "conduct_turn" /\ req[p].pc \in {"for_call", "against_call"})
        => /\ Snapshot(req[p].debate_id) = req[p].before
           /\ Listed(req[p].debate_id) = {req[p].before[1]}

\* C17: a start_debate request answered with 200 (it found the debate in
\* created or in_progress, and every provider call it made succeeded) has
\* made exactly max_turns - current_turn conduct_turn calls, counted from
\* the current_turn it found, and returns a snapshot with status completed,
\* current_turn = max_turns and 2 * max_turns messages.
C17_RunToCompletion ==
    \A p \in Procs :
        (req[p].route = "start_debate" /\ req[p].http = 200)
        => LET max_turns == Stored(req[p].debate_id).max_turns
               found == req[p].entry[1]
               snapshot == req[p].returned[1]
           IN /\ found.status \in {"created", "in_progress"}
              /\ req[p].turns = max_turns - found.current_turn
              /\ snapshot.status = "completed"
              /\ snapshot.current_turn = max_turns
              /\ Len(snapshot.messages) = 2 * max_turns

(***************************************************************************)
(* Concurrent conduct_turn calls.  The coroutines share one event loop: a  *)
(* coroutine gives way to the others only at an await that suspends, and   *)
(* the only such await is the OpenAI call (client.chat.completions.create  *)
(* of AsyncOpenAI).  The Anthropic and Gemini calls are synchronous SDK     *)
(* calls: while one of them runs, and between the return of conduct_turn   *)
(* and the next test of the route's loop, no other coroutine takes a step. *)
(***************************************************************************)
Blocking(p) ==
    \/ req[p].pc = "for_call"
          /\ get_provider(ForCallModel(heap[req[p].debate])) # "gpt"
    \/ req[p].pc = "against_call"
          /\ get_provider(AgainstCallModel(heap[req[p].debate])) # "gpt"
    \/ req[p].pc = "adj_call" /\ get_provider(req[p].model) # "gpt"
    \/ req[p].pc = "loop"

CanRun(p) == \A q \in Procs \ {p} : ~Blocking(q)

ConcModelPairs == {<<"gpt-4o", "gpt-4-turbo">>,
                   <<"gpt-4o", "claude-3-5-sonnet-20241022">>}

ConcCreate ==
    \E models \in ConcModelPairs, max_turns \in 1..MaxTurns :
        CreateDebate("d1", "X", models[1], models[2], max_turns)

ConcTurnBegin ==
    \E p \in Procs : CanRun(p) /\ ConductTurnBegin(p, "d1", AllKeys)

ConcForReturn == \E p \in Procs, text \in Texts : CanRun(p) /\ ForReturn(p, text)
ConcForFail == \E p \in Procs : CanRun(p) /\ ForFail(p)
ConcAgainstReturn ==
    \E p \in Procs, text \in Texts : CanRun(p) /\ AgainstReturn(p, text)
ConcAgainstFail == \E p \in Procs : CanRun(p) /\ AgainstFail(p)

NextConc ==
    \/ ConcCreate
    \/ ConcTurnBegin
    \/ ConcForReturn
    \/ ConcForFail
    \/ ConcAgainstReturn
    \/ ConcAgainstFail

SpecConc == Init /\ [][NextConc]_vars

\* Two conduct_turn calls on one debate that both loaded it at the same
\* current_turn (the second loaded while the first was waiting on a
\* provider call) and both ran to their end.
BothRan(p, q) ==
    /\ p # q
    /\ req[p].op = "conduct_turn" /\ req[p].pc = "done" /\ req[p].result = "ok"
    /\ req[q].op = "conduct_turn" /\ req[q].pc = "done" /\ req[q].result = "ok"
    /\ req[p].debate_id = req[q].debate_id
    /\ req[p].before[1].current_turn = req[q].before[1].current_turn

\* C18: after two interleaved conduct_turn calls on one debate, the stored
\* current_turn has advanced by only 1 although two turns ran: the last
\* update wins and the earlier increment is lost.
C18_LostIncrement ==
    \A p \in Procs, q \in Procs :
        BothRan(p, q)
        => Stored(req[p].debate_id).current_turn
              = req[p].before[1].current_turn + 1

\* C19: credentials are per request: once no request is in flight, no
\* credential value is held by a request, by the service object or by
\* process-wide state (the debate records have no credential field).
C19_CredentialsNotKept ==
    AllFree =>
        /\ \A p \in Procs : req[p].api_keys = NoKeys
        /\ llm.anthropic_key = None
        /\ llm.openai_key = None
        /\ llm.gemini_key = None
        /\ llm.genai_api_key = None

\* A route request that has answered.
Answered(p, route) == req[p].route = route /\ req[p].pc = "done"

ServiceErrors ==
    {"NotFound", "AlreadyCompleted", "NotCompleted", "UnknownModel",
     "MissingCredential", "ProviderError", "AdjudicationParseError",
     "ValidationError", "TypeError"}

\* C20: start_debate answers 404 for an absent identifier and 400 "already
\* completed" for a completed debate; the adjudicate route answers 404 for
\* an absent identifier and 400 "must be completed" for a debate that is not
\* completed; these answers are given without entering the service and
\* without a provider call, and every failure inside the service (a provider
\* error among them) is answered with 500 instead.
C20_ClientErrors ==
    \A p \in Procs :
        /\ (Answered(p, "start_debate") /\ req[p].entry = <<>>)
           => /\ req[p].http = 404 /\ req[p].detail = "Debate not found"
              /\ req[p].op = "none" /\ req[p].calls = <<>>
        /\ (Answered(p, "start_debate") /\ req[p].entry # <<>>
               /\ req[p].entry[1].status = "completed")
           => /\ req[p].http = 400
              /\ req[p].detail = "Debate is already completed"
              /\ req[p].op = "none" /\ req[p].calls = <<>>
        /\ (Answered(p, "adjudicate_debate") /\ req[p].entry = <<>>)
           => /\ req[p].http = 404 /\ req[p].detail = "Debate not found"
              /\ req[p].op = "none" /\ req[p].calls = <<>>
        /\ (Answered(p, "adjudicate_debate") /\ req[p].entry # <<>>
               /\ req[p].entry[1].status # "completed")
           => /\ req[p].http = 400
              /\ req[p].detail = "Debate must be completed before adjudication"
              /\ req[p].op = "none" /\ req[p].calls = <<>>
        /\ (req[p].route # None /\ req[p].pc = "done"
               /\ req[p].result \in ServiceErrors)
           => /\ req[p].http = 500
              /\ req[p].detail \in {"Error during debate", "Error during adjudication"}
        /\ (req[p].route # None /\ req[p].http \in {404, 400})
           => req[p].calls = <<>> /\ req[p].result = None

C20_Witness ==
    \E p \in Procs :
        /\ Answered(p, "start_debate")
        /\ req[p].entry # <<>>
        /\ req[p].entry[1].status = "completed"
        /\ req[p].http = 400

\* Payloads with a score outside 0..100 and with a score missing, as text.
BadScoreTexts == {<<"P_range">>, <<"P_noscore">>}

\* C21: adjudicate returns no result whose for_score or against_score lies
\* outside 0..100; a response whose payload has an out-of-range or missing
\* score ends as a parse failure.
C21_ScoreRange ==
    \A p \in Procs :
        Parsed(p) =>
            /\ req[p].verdict # <<>> =>
                  /\ req[p].verdict[1].for_score \in 0..100
                  /\ req[p].verdict[1].against_score \in 0..100
            /\ (\E pt \in BadScoreTexts : req[p].response[1] \in BareForms(pt)) =>
                  /\ req[p].result = "AdjudicationParseError"
                  /\ req[p].verdict = <<>>

\* The fields of a debate that are set when it is built.
Identity(d) ==
    [debate_id |-> d.debate_id, proposition |-> d.proposition,
     for_model |-> d.for_model, against_model |-> d.against_model,
     max_turns |-> d.max_turns, created_at |-> d.created_at]

IsPrefix(s, t) == Len(s) <= Len(t) /\ SubSeq(t, 1, Len(s)) = s

\* A step taken by a request that is in adjudicate, through the service or
\* through the route.
AdjudicateStep ==
    \E p \in Procs :
        /\ req'[p] # req[p]
        /\ req'[p].op = "adjudicate" \/ req'[p].route = "adjudicate_debate"

\* C22: no step of conduct_turn or adjudicate changes a stored debate's
\* identifier, proposition, for_model, against_model, max_turns or
\* created_at; the messages a debate held before a step are still there
\* after it, same role and content, same positions; and a step of
\* adjudicate changes no field of any debate.
C22_Frame ==
    [][/\ \A d \in DOMAIN debates :
            /\ d \in DOMAIN debates'
            /\ Identity(heap'[debates'[d]]) = Identity(heap[debates[d]])
            /\ IsPrefix(heap[debates[d]].messages, heap'[debates'[d]].messages)
       /\ AdjudicateStep => StoreUnchanged]_vars

C22_Witness ==
    \E p \in Procs :
        /\ req[p].op = "adjudicate" /\ req[p].result = "ok"
        /\ Stored(req[p].debate_id).current_turn = 2
        /\ Len(Stored(req[p].debate_id).messages) = 4

NoAdjacentSameRole(messages) ==
    \A i \in 1..(Len(messages) - 1) : messages[i].role # messages[i + 1].role

\* C23: with conduct_turn calls on one debate interleaving at their
\* provider calls (and none of them failing), every stored state of the
\* debate has current_turn <= max_turns, at most 2 * max_turns messages and
\* no two adjacent messages with the same role.
C23_ConcurrentBounds ==
    \A d \in DOMAIN debates :
        failed[d] = 0 =>
            /\ Stored(d).current_turn <= Stored(d).max_turns
            /\ Len(Stored(d).messages) <= 2 * Stored(d).max_turns
            /\ NoAdjacentSameRole(Stored(d).messages)

(***************************************************************************)
(* Two debates.  Request p1 works on d1 and p2 on d2, so the calls on one  *)
(* debate run one after another while the calls on the two debates         *)
(* interleave at the awaited provider calls; the provider answers the      *)
(* calls on d1 with t1 and the calls on d2 with t2.                        *)
(***************************************************************************)
OwnDebate(p) == IF p = "p1" THEN "d1" ELSE "d2"
OwnText(d) == IF d = "d1" THEN "t1" ELSE "t2"

TwoCreate ==
    \E debate_id \in DebateIds, models \in ConcModelPairs, max_turns \in 1..MaxTurns :
        CreateDebate(debate_id, "X", models[1], models[2], max_turns)

TwoTurnBegin ==
    \E p \in Procs : CanRun(p) /\ ConductTurnBegin(p, OwnDebate(p), AllKeys)

TwoForReturn == \E p \in Procs : CanRun(p) /\ ForReturn(p, OwnText(OwnDebate(p)))
TwoForFail == \E p \in Procs : CanRun(p) /\ ForFail(p)
TwoAgainstReturn ==
    \E p \in Procs : CanRun(p) /\ AgainstReturn(p, OwnText(OwnDebate(p)))
TwoAgainstFail == \E p \in Procs : CanRun(p) /\ AgainstFail(p)

NextTwo ==
    \/ TwoCreate
    \/ TwoTurnBegin
    \/ TwoForReturn
    \/ TwoForFail
    \/ TwoAgainstReturn
    \/ TwoAgainstFail

SpecTwo == Init /\ [][NextTwo]_vars

\* The state a debate has after its own calls alone: while none of them has
\* failed, one FOR and one AGAINST message per counted turn (one more FOR
\* message while a call is between its two provider calls), every text its
\* own, and completed exactly at max_turns.
AsIfAlone(d) ==
    LET debate == Stored(d)
        midway == \E p \in Procs : req[p].debate_id = d /\ req[p].pc = "against_call"
    IN failed[d] = 0 =>
         /\ Len(debate.messages) = 2 * debate.current_turn + (IF midway THEN 1 ELSE 0)
         /\ Alternates(debate.messages)
         /\ \A i \in 1..Len(debate.messages) : debate.messages[i].content = OwnText(d)
         /\ debate.current_turn <= debate.max_turns
         /\ debate.status = "completed" <=> debate.current_turn = debate.max_turns

\* C24: conduct_turn calls on two different identifiers do not interfere,
\* however they interleave: a step of a call on one debate leaves the
\* status, messages and current_turn of every other stored debate as they
\* were, and each debate is in the state its own calls alone give it.
C24_NoInterference ==
    /\ [](\A d \in DOMAIN debates : AsIfAlone(d))
    /\ [][\A p \in Procs, e \in DOMAIN debates :
             (req'[p] # req[p] /\ req'[p].debate_id # e)
             => /\ e \in DOMAIN debates'
                /\ View(heap'[debates'[e]]) = View(heap[debates[e]])]_vars

C24_Witness ==
    /\ req["p1"].pc = "for_call" /\ req["p1"].debate_id = "d1"
    /\ req["p2"].pc = "against_call" /\ req["p2"].debate_id = "d2"
    /\ Stored("d1").current_turn = 1
    /\ Len(Stored("d2").messages) = 1
====
